---- MODULE Spec2Model ----
(***************************************************************************)
(* Slide/STT alignment engine of src/src/matcher.py.                       *)
(*                                                                         *)
(* Utterances are identified by their 1-based position in the input list;  *)
(* a SlideMatch.utterances list is a sequence of such positions, so an     *)
(* utterance dict appended twice shows up as a repeated position.          *)
(* Slide i of slides_info has page_num = i (1-based, contiguous).          *)
(* Indices named slide_idx, win_start, win_end, window_start and           *)
(* last_matched_idx are 0-based as in the source.                          *)
(*                                                                         *)
(* Arithmetic: the source divides floats and truncates with int(); the     *)
(* model computes the same quotients on integers (sec*n \div last for      *)
(* int(sec / (last / n))), which agrees with the float result for every    *)
(* input in the modelled range.                                            *)
(***************************************************************************)
EXTENDS Integers, Sequences, FiniteSets, TLC

\* ---------------------------------------------------------------- bounds
MaxSlides == 4
MaxUtterances == 2
MaxTick == 3
MaxOracleEntries == 2
MaxChunkLen == 5
MaxWinStart == 3
MaxWinSize == 5
MaxPassSlides == 2
MaxPassUtterances == 2
MaxWords == 10
MaxSplitLen == 3
MaxSplitSecond == 6
MaxSplitWidth == 3
MaxDeckExtra == 1
MaxDurationTick == 6
MaxTagSlides == 2

\* ------------------------------------------------------ program constants
DEFAULT_LECTURE_MINUTES == 150
CHUNK_MINUTES == 10
WINDOW_MULTIPLIER == 3
OVERLAP_BACK == 2
MIN_WINDOW_SIZE == 10
DEFAULT_SLIDES_PER_CHUNK == 5
\* overlap > 0.1, on integers: OVERLAP_INVERSE * |common| > |preview words|
OVERLAP_INVERSE == 10

\* utterance.get("slide_num") is None: no page hint
NoHint == 0

\* ------------------------------------------------------------- inputs
\* seconds of an utterance: multiples of 590 s (0, 590, 1180, 1770: chunks 0, 0, 1, 2)
SecondsValues == {t * 590 : t \in 0..MaxTick}

\* total_duration_seconds handed to the matcher (absent, the 150 min default)
DurationValues == {0, 9000}

\* confidence strings the oracle attaches to a tuple (passed through unchanged);
\* "absent" would stand for an item without the key
OracleConfidences == {"high"}

Max(a, b) == IF a >= b THEN a ELSE b

Min(a, b) == IF a <= b THEN a ELSE b

Abs(a) == IF a >= 0 THEN a ELSE -a

\* Python slice s[a:b] for 0 <= a (0-based, half-open, clamped to len(s))
Slice(s, a, b) == SubSeq(s, Min(a, Len(s)) + 1, Min(b, Len(s)))

\* SlideMatch(slide_num=page_num, utterances=[], confidence="unknown")
NewSlideMatch(i) ==
    [slide_num |-> i, slide_text |-> <<>>, utterances |-> <<>>, confidence |-> "unknown",
     llm_verified |-> FALSE, notes |-> <<>>]

\* the initialisation filling the list from the last slide to the first
InitMatches_Reversed(n) == [i \in 1..n |-> NewSlideMatch(n + 1 - i)]

\* matches = [SlideMatch(...) for slide in slides_info]
InitMatches(n) == [i \in 1..n |-> NewSlideMatch(i)]

\* max(u["seconds"] for u in utterances)
LastSecond(utts) ==
    CHOOSE m \in {utts[i].seconds : i \in 1..Len(utts)} :
        \A i \in 1..Len(utts) : utts[i].seconds <= m

VARIABLES
    strategy,                \* "windowed" (sliding_window_matching), "legacy" (time_based_matching)
    num_slides,              \* len(slides_info)
    utterances,              \* stt_data["utterances"]: sequence of [seconds, slide_num]
    total_duration_seconds,  \* argument of the matcher
    api_key,                 \* TRUE iff ANTHROPIC_API_KEY is set and not the placeholder
    pc,                      \* position of the run
    matches,                 \* list of SlideMatch
    window_start,            \* Window Manager state
    chunk_idx,               \* 1-based position in the chunk list
    chunk_utterances,        \* utterances of the chunk being resolved / last resolved
    win_start,               \* window of that chunk
    win_end,
    chunk_result,            \* mappings of that chunk (llm_match_chunk's or _fallback_chunk's result)
    chunk_source,            \* "oracle", "except", "unparseable" (both fallback) or "none"
    result_len,              \* items of the oracle's result_list consumed for that chunk
    last_matched_idx,        \* local of the apply loop
    entries_total,           \* utterance indices (1 per empty item) the oracle has sent in the whole run
    oracle_calls,            \* number of client.messages.create calls
    chunk_secs,              \* chunk_seconds argument of split_utterances_into_chunks
    chunks,                  \* list returned by split_utterances_into_chunks
    verify_pos,              \* llm_verify_matches: position in matches of the last slide verified
    lecture_secs,            \* lecture_seconds local of sliding_window_matching (0: not yet set)
    oracle_tags              \* confidence strings the oracle of this run attaches to its tuples

vars == <<strategy, num_slides, utterances, total_duration_seconds, api_key, pc, matches,
          window_start, chunk_idx, chunk_utterances, win_start, win_end, chunk_result,
          chunk_source, result_len, last_matched_idx, entries_total, oracle_calls,
          chunk_secs, chunks, verify_pos, lecture_secs,
          oracle_tags>>

inputs == <<strategy, num_slides, utterances, total_duration_seconds, api_key, chunk_secs,
            oracle_tags>>

locals == <<chunk_utterances, win_start, win_end, chunk_result, chunk_source, result_len,
            last_matched_idx>>

\* ------------------------------------------------------------ chunker
\* chunk_seconds = CHUNK_MINUTES * 60
chunk_seconds == CHUNK_MINUTES * 60

NewChunk(start, cs) == [start_sec |-> start, end_sec |-> start + cs, utterances |-> <<>>]

\* the for/while loop of split_utterances_into_chunks: i is the next utterance,
\* cur the chunk being filled
\* the loop with "sec > end_sec" as the test that closes a chunk
RECURSIVE SplitLoop_StrictTest(_, _, _, _, _)
SplitLoop_StrictTest(utts, i, acc, cur, cs) ==
    IF i > Len(utts)
    THEN IF cur.utterances # <<>> THEN Append(acc, cur) ELSE acc
    ELSE IF utts[i].seconds > cur.end_sec
         THEN SplitLoop_StrictTest(utts, i, Append(acc, cur), NewChunk(cur.end_sec, cs), cs)
         ELSE SplitLoop_StrictTest(utts, i + 1, acc,
                                   [cur EXCEPT !.utterances = Append(@, i)], cs)

\* the loop with empty chunks dropped when they are closed
RECURSIVE SplitLoop_DropEmpty(_, _, _, _, _)
SplitLoop_DropEmpty(utts, i, acc, cur, cs) ==
    IF i > Len(utts)
    THEN IF cur.utterances # <<>> THEN Append(acc, cur) ELSE acc
    ELSE IF utts[i].seconds >= cur.end_sec
         THEN SplitLoop_DropEmpty(utts, i,
                                  IF cur.utterances # <<>> THEN Append(acc, cur) ELSE acc,
                                  NewChunk(cur.end_sec, cs), cs)
         ELSE SplitLoop_DropEmpty(utts, i + 1, acc,
                                  [cur EXCEPT !.utterances = Append(@, i)], cs)

RECURSIVE SplitLoop(_, _, _, _, _)
SplitLoop(utts, i, acc, cur, cs) ==
    IF i > Len(utts)
    THEN IF cur.utterances # <<>> THEN Append(acc, cur) ELSE acc
    ELSE IF utts[i].seconds >= cur.end_sec
         THEN SplitLoop(utts, i, Append(acc, cur), NewChunk(cur.end_sec, cs), cs)
         ELSE SplitLoop(utts, i + 1, acc, [cur EXCEPT !.utterances = Append(@, i)], cs)

split_utterances_into_chunks(utts, cs) ==
    IF utts = <<>> THEN <<>> ELSE SplitLoop(utts, 1, <<>>, NewChunk(0, cs), cs)

\* ------------------------------------------------ lecture time and window
default_seconds == DEFAULT_LECTURE_MINUTES * 60

\* abs(total - default) / default < 0.2, on integers
NearDefault(total) == 5 * Abs(total - default_seconds) < default_seconds

\* the decision without its last statement "if stt_last_second > lecture_seconds"
lecture_seconds_NoClamp(total, stt_last) ==
    IF total > 0 /\ NearDefault(total) THEN default_seconds
    ELSE IF total > 0 THEN total
    ELSE IF stt_last > 0 THEN stt_last ELSE default_seconds

lecture_seconds(total, stt_last) ==
    LET first == IF total > 0 /\ NearDefault(total) THEN default_seconds
                 ELSE IF total > 0 THEN total
                 ELSE IF stt_last > 0 THEN stt_last ELSE default_seconds
    IN  IF stt_last > first THEN stt_last ELSE first

\* int(CHUNK_MINUTES / avg_min_per_slide), avg_min_per_slide = lecture / n / 60
slides_per_chunk(lecture, n) ==
    IF lecture > 0 /\ n > 0 THEN (CHUNK_MINUTES * 60 * n) \div lecture
    ELSE DEFAULT_SLIDES_PER_CHUNK

window_size(lecture, n) == Max(slides_per_chunk(lecture, n) * WINDOW_MULTIPLIER, MIN_WINDOW_SIZE)

\* the window start without its floor at the first slide
WinStart_NoFloor(ws) == ws - OVERLAP_BACK

\* win_start = max(0, window_start - OVERLAP_BACK)
WinStart(ws) == Max(0, ws - OVERLAP_BACK)

\* win_end without the "if chunk_idx == len(chunks) - 1" override
WinEnd_NoLastChunkRule(ws, wsize, n, is_last) == Min(n, ws + wsize)

\* win_end = min(num_slides, window_start + window_size); last chunk: num_slides
WinEnd(ws, wsize, n, is_last) == IF is_last THEN n ELSE Min(n, ws + wsize)

\* window_start = last_matched_idx + 1, clamped to num_slides - 1
NextWindowStart_NoClamp(lmi, n) == lmi + 1

NextWindowStart(lmi, n) == IF lmi + 1 >= n THEN n - 1 ELSE lmi + 1

\* ----------------------------------------------------- fallback allocator
\* per_slide = max(1, len(chunk_utterances) // window_size)
PerSlide_NoFloor(n, wsize) == n \div wsize

PerSlide(n, wsize) == Max(1, n \div wsize)

RECURSIVE FallbackChunkLoop(_, _, _, _, _)
FallbackChunkLoop(chunk, ws, wsize, i, result) ==
    IF i >= wsize THEN result
    ELSE LET per == PerSlide(Len(chunk), wsize)
             start == i * per
             end == IF i < wsize - 1 THEN start + per ELSE Len(chunk)
             selected == Slice(chunk, start, end)
         IN  FallbackChunkLoop(chunk, ws, wsize, i + 1,
                 IF selected # <<>>
                 THEN Append(result, [slide_idx |-> ws + i, utterances |-> selected,
                                      confidence |-> "low"])
                 ELSE result)

_fallback_chunk(chunk, ws, we) ==
    IF we - ws <= 0 THEN <<>> ELSE FallbackChunkLoop(chunk, ws, we - ws, 0, <<>>)

\* min(int(sec / time_per_slide), num_slides - 1), time_per_slide = last / num_slides > 0
TimeSlideIdx(sec, last, n) == Min((sec * n) \div last, n - 1)

\* matches[idx].utterances.append(u)
AppendUtterance(m, idx, u) == [m EXCEPT ![idx + 1].utterances = Append(@, u)]

\* loop of _fallback_time_based; sec / time_per_slide raises ZeroDivisionError
\* when stt_last_second = 0
RECURSIVE FallbackTimeLoop(_, _, _, _, _)
FallbackTimeLoop(m, utts, i, n, last) ==
    IF i > Len(utts) THEN [raised |-> FALSE, matches |-> m]
    ELSE IF last = 0 THEN [raised |-> TRUE, matches |-> m]
    ELSE FallbackTimeLoop(AppendUtterance(m, TimeSlideIdx(utts[i].seconds, last, n), i),
                          utts, i + 1, n, last)

_fallback_time_based(m, utts, n, last) == FallbackTimeLoop(m, utts, 1, n, last)

\* ------------------------------------------------------- legacy matcher
\* slide_num is not None and 1 <= slide_num <= num_slides
HintValid(h, n) == h # NoHint /\ 1 <= h /\ h <= n

\* assignment loop of time_based_matching.  With num_slides = 0 the index 0 of an
\* empty list raises IndexError; with last_utterance_time = 0 the division
\* raises ZeroDivisionError for the first utterance without a usable hint.
RECURSIVE TimeBasedLoop(_, _, _, _, _)
TimeBasedLoop(m, utts, i, n, last) ==
    IF i > Len(utts) THEN [raised |-> FALSE, matches |-> m]
    ELSE LET h == utts[i].slide_num
         IN  IF HintValid(h, n)
             THEN TimeBasedLoop(AppendUtterance(m, h - 1, i), utts, i + 1, n, last)
             ELSE IF n = 0 THEN [raised |-> TRUE, matches |-> m]
             ELSE IF last = 0 THEN [raised |-> TRUE, matches |-> m]
             ELSE TimeBasedLoop(AppendUtterance(m, TimeSlideIdx(utts[i].seconds, last, n), i),
                                utts, i + 1, n, last)

time_based_matching(utts, n) == TimeBasedLoop(InitMatches(n), utts, 1, n, LastSecond(utts))

\* ------------------------------------------------- oracle response handling
\* selected_utterances of one item: indices outside 0..len(chunk)-1 are skipped
SelectedUtterances(chunk, indices) ==
    LET valid == SelectSeq(indices, LAMBDA idx : 0 <= idx /\ idx < Len(chunk))
    IN  [k \in 1..Len(valid) |-> chunk[valid[k] + 1]]

\* item.get("confidence", "medium")
ItemConfidence(conf) == IF conf = "absent" THEN "medium" ELSE conf

\* conversion of one item of result_list; an item with no selected utterance
\* is not appended to mapped
ConvertItem(mapped, chunk, slide_num, indices, conf) ==
    LET selected == SelectedUtterances(chunk, indices)
    IN  IF selected # <<>>
        THEN Append(mapped, [slide_idx |-> slide_num - 1, utterances |-> selected,
                             confidence |-> ItemConfidence(conf)])
        ELSE mapped

\* if 0 <= slide_idx < num_slides
SlideInRange(slide_idx, n) == 0 <= slide_idx /\ slide_idx < n

\* the SlideMatch update keeping the confidence of the first mapping applied
ApplyMapping_KeepFirst(m, mapping, n) ==
    IF SlideInRange(mapping.slide_idx, n)
    THEN [m EXCEPT ![mapping.slide_idx + 1] =
             [@ EXCEPT !.utterances = @ \o mapping.utterances,
                       !.confidence = IF @ = "unknown" THEN mapping.confidence ELSE @,
                       !.llm_verified = TRUE]]
    ELSE m

\* body of "for mapping in chunk_result": the SlideMatch update
ApplyMapping(m, mapping, n) ==
    IF SlideInRange(mapping.slide_idx, n)
    THEN [m EXCEPT ![mapping.slide_idx + 1] =
             [@ EXCEPT !.utterances = @ \o mapping.utterances,
                       !.confidence = mapping.confidence,
                       !.llm_verified = TRUE]]
    ELSE m

\* body of "for mapping in chunk_result": the last_matched_idx update
AdvanceLastMatched(lmi, mapping, n) ==
    IF SlideInRange(mapping.slide_idx, n) /\ mapping.slide_idx > lmi
    THEN mapping.slide_idx ELSE lmi

RECURSIVE ApplyAll(_, _, _, _)
ApplyAll(m, result, k, n) ==
    IF k > Len(result) THEN m ELSE ApplyAll(ApplyMapping(m, result[k], n), result, k + 1, n)

RECURSIVE LastMatchedAll(_, _, _, _)
LastMatchedAll(lmi, result, k, n) ==
    IF k > Len(result) THEN lmi
    ELSE LastMatchedAll(AdvanceLastMatched(lmi, result[k], n), result, k + 1, n)

\* ------------------------------------------------------------ initial state
\* utterance lists sorted by seconds (precondition of the engine); page hints
\* only vary under the legacy matcher, the only code that branches on them
UtteranceLists(n, hinted) ==
    LET Hints == IF hinted THEN 0..(n + 1) ELSE {NoHint}
        U == [seconds : SecondsValues, slide_num : Hints, content : {<<>>}]
    IN  UNION {{s \in [1..k -> U] : \A i \in 1..(k - 1) : s[i].seconds <= s[i + 1].seconds}
               : k \in 0..MaxUtterances}

Idle ==
    /\ matches = <<>>
    /\ window_start = 0
    /\ chunk_idx = 0
    /\ chunk_utterances = <<>>
    /\ win_start = 0
    /\ win_end = 0
    /\ chunk_result = <<>>
    /\ chunk_source = "none"
    /\ result_len = 0
    /\ last_matched_idx = 0
    /\ entries_total = 0
    /\ oracle_calls = 0
    /\ chunks = <<>>
    /\ verify_pos = 0
    /\ lecture_secs = 0

\* The duration only enters window_size, which is at least MIN_WINDOW_SIZE: a
\* deck of at most MIN_WINDOW_SIZE slides gets win_end = num_slides whatever the
\* duration, so it is varied for longer decks only (DeckInit below).
\* time_based_matching ignores it.
Init ==
    /\ strategy \in {"windowed", "legacy"}
    /\ num_slides \in 0..MaxSlides
    /\ utterances \in UtteranceLists(num_slides, strategy = "legacy")
    /\ total_duration_seconds \in
           (IF strategy = "windowed" /\ num_slides > MIN_WINDOW_SIZE THEN DurationValues ELSE {0})
    /\ api_key \in (IF strategy = "windowed" THEN BOOLEAN ELSE {FALSE})
    /\ chunk_secs = chunk_seconds
    /\ oracle_tags = OracleConfidences
    /\ pc = "start"
    /\ Idle

\* chunks = split_utterances_into_chunks(utterances, chunk_seconds)
Chunks == split_utterances_into_chunks(utterances, chunk_secs)

WindowSize ==
    window_size(lecture_seconds(total_duration_seconds, LastSecond(utterances)), num_slides)

\* ------------------------------------------------ sliding_window_matching
\* if not utterances or not num_slides: return []
EmptyInput ==
    /\ pc = "start"
    /\ strategy = "windowed"
    /\ utterances = <<>> \/ num_slides = 0
    /\ pc' = "done"
    /\ matches' = <<>>
    /\ UNCHANGED <<inputs, chunks, lecture_secs, verify_pos, locals, window_start, chunk_idx,
                   entries_total, oracle_calls>>

\* no API key: return _fallback_time_based(matches, utterances, num_slides, stt_last_second)
NoCredentialFallback ==
    /\ pc = "start"
    /\ strategy = "windowed"
    /\ utterances # <<>> /\ num_slides # 0
    /\ ~api_key
    /\ LET r == _fallback_time_based(InitMatches(num_slides), utterances, num_slides,
                                     LastSecond(utterances))
       IN  /\ matches' = r.matches
           /\ pc' = IF r.raised THEN "raised" ELSE "done"
    /\ chunks' = Chunks
    /\ lecture_secs' = lecture_seconds(total_duration_seconds, LastSecond(utterances))
    /\ UNCHANGED <<inputs, verify_pos, locals, window_start, chunk_idx, entries_total,
                   oracle_calls>>

\* API key present: matches initialised, window_start = 0, chunk loop entered
EnterChunkLoop ==
    /\ pc = "start"
    /\ strategy = "windowed"
    /\ utterances # <<>> /\ num_slides # 0
    /\ api_key
    /\ matches' = InitMatches(num_slides)
    /\ window_start' = 0
    /\ chunk_idx' = 1
    /\ pc' = "loop"
    /\ chunks' = Chunks
    /\ lecture_secs' = lecture_seconds(total_duration_seconds, LastSecond(utterances))
    /\ UNCHANGED <<inputs, verify_pos, locals, entries_total, oracle_calls>>

AtChunk == pc = "loop" /\ chunk_idx <= Len(Chunks)

\* where the run stands once chunk chunk_idx is resolved: the next iteration,
\* or, after the last chunk, "return matches"
AfterChunk == IF chunk_idx = Len(Chunks) THEN "done" ELSE "loop"

CurWinStart == WinStart(window_start)

CurWinEnd == WinEnd(window_start, WindowSize, num_slides, chunk_idx = Len(Chunks))

\* len(window_slides), window_slides = slides_info[win_start:win_end]
WindowSlidesLen == Max(0, Min(CurWinEnd, num_slides) - Min(CurWinStart, num_slides))

\* an empty chunk handled as a chunk that matched nothing: no call, but the
\* window start recomputed from the window's first slide
SkipEmptyChunk_Advance ==
    /\ AtChunk
    /\ Chunks[chunk_idx].utterances = <<>>
    /\ chunk_idx' = chunk_idx + 1
    /\ window_start' = NextWindowStart(CurWinStart, num_slides)
    /\ UNCHANGED <<inputs, chunks, lecture_secs, verify_pos, locals, pc, matches,
                   entries_total, oracle_calls>>

\* if not chunk_utterances: continue
SkipEmptyChunk ==
    /\ AtChunk
    /\ Chunks[chunk_idx].utterances = <<>>
    /\ chunk_idx' = chunk_idx + 1
    /\ UNCHANGED <<inputs, chunks, lecture_secs, verify_pos, locals, pc, matches, window_start,
                   entries_total, oracle_calls>>

\* one whole iteration whose chunk_result comes from the fallback allocator
ResolveByFallback(result, source) ==
    /\ chunk_utterances' = Chunks[chunk_idx].utterances
    /\ win_start' = CurWinStart
    /\ win_end' = CurWinEnd
    /\ chunk_result' = result
    /\ chunk_source' = source
    /\ result_len' = 0
    /\ matches' = ApplyAll(matches, result, 1, num_slides)
    /\ last_matched_idx' = LastMatchedAll(CurWinStart, result, 1, num_slides)
    /\ window_start' = NextWindowStart(last_matched_idx', num_slides)
    /\ chunk_idx' = chunk_idx + 1
    /\ oracle_calls' = oracle_calls + 1
    /\ pc' = AfterChunk
    /\ UNCHANGED <<inputs, chunks, lecture_secs, verify_pos, entries_total>>

\* llm_match_chunk raises (network error, empty content, item that is not an
\* object, ...): except Exception -> _fallback_chunk(chunk, win_start, win_end)
OracleRaises ==
    /\ AtChunk
    /\ Chunks[chunk_idx].utterances # <<>>
    /\ ResolveByFallback(_fallback_chunk(Chunks[chunk_idx].utterances, CurWinStart, CurWinEnd),
                         "except")

\* no JSON array in the response text, or json.loads fails: llm_match_chunk
\* returns _fallback_chunk(chunk, window_offset, window_offset + len(window_slides))
OracleUnparseable ==
    /\ AtChunk
    /\ Chunks[chunk_idx].utterances # <<>>
    /\ WindowSlidesLen > 0
    /\ ResolveByFallback(_fallback_chunk(Chunks[chunk_idx].utterances, CurWinStart,
                                         CurWinStart + WindowSlidesLen),
                         "unparseable")

\* the response holds a JSON array: its items are converted and applied one
\* at a time (conversion has no side effect, so converting item k right
\* before applying it equals the source's convert-all-then-apply-all)
OracleReturnsList ==
    /\ AtChunk
    /\ Chunks[chunk_idx].utterances # <<>>
    /\ WindowSlidesLen > 0
    /\ chunk_utterances' = Chunks[chunk_idx].utterances
    /\ win_start' = CurWinStart
    /\ win_end' = CurWinEnd
    /\ chunk_result' = <<>>
    /\ chunk_source' = "oracle"
    /\ result_len' = 0
    /\ last_matched_idx' = CurWinStart
    /\ oracle_calls' = oracle_calls + 1
    /\ pc' = "mapping"
    /\ UNCHANGED <<inputs, chunks, lecture_secs, verify_pos, matches, window_start, chunk_idx,
                   entries_total>>

\* index lists an oracle item can carry: 0-based, len(chunk) is out of range;
\* no longer than what is left of the run's budget of oracle entries
IndexLists(n, budget) == UNION {[1..k -> 0..n] : k \in 0..budget}

\* next item {slide_num, utterance_indices, confidence} of result_list
OracleTuple(slide_num, indices, conf) ==
    /\ pc = "mapping"
    /\ entries_total + Max(1, Len(indices)) <= MaxOracleEntries
    /\ LET mapped == ConvertItem(chunk_result, chunk_utterances, slide_num, indices, conf)
       IN  /\ chunk_result' = mapped
           /\ IF Len(mapped) > Len(chunk_result)
              THEN /\ matches' = ApplyMapping(matches, mapped[Len(mapped)], num_slides)
                   /\ last_matched_idx' =
                          AdvanceLastMatched(last_matched_idx, mapped[Len(mapped)], num_slides)
              ELSE UNCHANGED <<matches, last_matched_idx>>
    /\ result_len' = result_len + 1
    /\ entries_total' = entries_total + Max(1, Len(indices))
    /\ UNCHANGED <<inputs, chunks, lecture_secs, verify_pos, pc, window_start, chunk_idx,
                   chunk_utterances, win_start, win_end, chunk_source, oracle_calls>>

\* slide numbers the oracle names: any of 0..num_slides + 1; for a deck longer
\* than the minimum window a sample of them (0, the first slide, a slide past
\* the overlap margin, the last slide, num_slides + 1)
OracleSlideNums(n) ==
    IF n <= MIN_WINDOW_SIZE THEN 0..(n + 1) ELSE {0, 1, OVERLAP_BACK + 2, n, n + 1}

OracleItem ==
    \E slide_num \in OracleSlideNums(num_slides),
       indices \in IndexLists(Len(chunk_utterances), MaxOracleEntries - entries_total),
       conf \in oracle_tags : OracleTuple(slide_num, indices, conf)

\* a chunk loop that asks again for a chunk whose response mapped nothing
EndOfList_Retry ==
    /\ pc = "mapping"
    /\ window_start' = NextWindowStart(last_matched_idx, num_slides)
    /\ chunk_idx' = IF chunk_result = <<>> THEN chunk_idx ELSE chunk_idx + 1
    /\ pc' = IF chunk_result = <<>> THEN "loop" ELSE AfterChunk
    /\ UNCHANGED <<inputs, chunks, lecture_secs, verify_pos, locals, matches, entries_total,
                   oracle_calls>>

\* result_list exhausted: window_start = last_matched_idx + 1 (clamped), then the
\* next chunk or the return
EndOfList ==
    /\ pc = "mapping"
    /\ window_start' = NextWindowStart(last_matched_idx, num_slides)
    /\ chunk_idx' = chunk_idx + 1
    /\ pc' = AfterChunk
    /\ UNCHANGED <<inputs, chunks, lecture_secs, verify_pos, locals, matches, entries_total,
                   oracle_calls>>

\* ------------------------------------------------------ time_based_matching
\* if not utterances: return []
LegacyEmpty ==
    /\ pc = "start"
    /\ strategy = "legacy"
    /\ utterances = <<>>
    /\ pc' = "done"
    /\ matches' = <<>>
    /\ UNCHANGED <<inputs, chunks, lecture_secs, verify_pos, locals, window_start, chunk_idx,
                   entries_total, oracle_calls>>

TimeBasedMatching ==
    /\ pc = "start"
    /\ strategy = "legacy"
    /\ utterances # <<>>
    /\ LET r == time_based_matching(utterances, num_slides)
       IN  /\ matches' = r.matches
           /\ pc' = IF r.raised THEN "raised" ELSE "done"
    /\ UNCHANGED <<inputs, chunks, lecture_secs, verify_pos, locals, window_start, chunk_idx,
                   entries_total, oracle_calls>>

Next ==
    \/ EmptyInput
    \/ NoCredentialFallback
    \/ EnterChunkLoop
    \/ SkipEmptyChunk
    \/ OracleRaises
    \/ OracleUnparseable
    \/ OracleReturnsList
    \/ OracleItem
    \/ EndOfList
    \/ LegacyEmpty
    \/ TimeBasedMatching

Spec == Init /\ [][Next]_vars

\* ------------------------------------- _fallback_chunk as a pure function
FallbackInit ==
    /\ strategy = "windowed"
    /\ num_slides = 0
    /\ utterances = <<>>
    /\ total_duration_seconds = 0
    /\ api_key = FALSE
    /\ pc = "fc_call"
    /\ matches = <<>>
    /\ window_start = 0
    /\ chunk_idx = 0
    /\ chunk_utterances \in {[i \in 1..n |-> off + i] : n \in 1..MaxChunkLen, off \in {0, 2}}
    /\ win_start \in 0..MaxWinStart
    /\ win_end \in (win_start + 1)..(win_start + MaxWinSize)
    /\ chunk_result = <<>>
    /\ chunk_source = "none"
    /\ result_len = 0
    /\ last_matched_idx = 0
    /\ entries_total = 0
    /\ oracle_calls = 0
    /\ chunk_secs = chunk_seconds
    /\ oracle_tags = OracleConfidences
    /\ chunks = <<>>
    /\ verify_pos = 0
    /\ lecture_secs = 0

FallbackChunkCall ==
    /\ pc = "fc_call"
    /\ chunk_result' = _fallback_chunk(chunk_utterances, win_start, win_end)
    /\ chunk_source' = "except"
    /\ pc' = "fc_done"
    /\ UNCHANGED <<inputs, chunks, lecture_secs, verify_pos, matches, window_start, chunk_idx,
                   chunk_utterances, win_start, win_end, result_len, last_matched_idx,
                   entries_total, oracle_calls>>

FallbackNext == FallbackChunkCall

FallbackSpec == FallbackInit /\ [][FallbackNext]_vars

\* --------------------------------------------------- llm_verify_matches
\* confidence strings the verification oracle attaches to its verdict
\* ("absent": the key is missing); the code passes them through unchanged
VerdictConfidences == {"absent", "low", "certain"}

\* match_quality values of the verdict
VerdictQualities == {"good", "partial", "poor"}

\* what verify_single_match returns for a response holding a JSON object
ParsedVerdict(quality, conf) ==
    [verified |-> quality \in {"good", "partial"},
     confidence |-> IF conf = "absent" THEN "medium" ELSE conf,
     notes |-> <<"reasoning">>]

\* what it returns when no JSON object is found or json.loads fails
UnparsedVerdict == [verified |-> FALSE, confidence |-> "unknown", notes |-> <<"parse_failed">>]

\* if result["verified"]: ... else: ...   (result always has the key
\* "confidence", so the default "low" of result.get is never used)
ApplyVerdict(m, result) ==
    IF result.verified
    THEN [m EXCEPT !.confidence = "high", !.llm_verified = TRUE]
    ELSE [m EXCEPT !.confidence = result.confidence, !.notes = result.notes]

\* except Exception: match.confidence = "unknown"
VerifyFailed(m) == [m EXCEPT !.confidence = "unknown"]

\* slides_to_verify without its "if m.utterances" filter
NextToVerify_All(ms, pos) == IF pos < Len(ms) THEN pos + 1 ELSE 0

\* slides_to_verify = [m for m in matches if m.utterances]: position of the
\* first slide after pos that has utterances, 0 when there is none
NextToVerify(ms, pos) ==
    LET later == {i \in (pos + 1)..Len(ms) : ms[i].utterances # <<>>}
    IN  IF later = {} THEN 0 ELSE CHOOSE i \in later : \A j \in later : i <= j

AfterVerify(pos) == IF NextToVerify(matches, pos) = 0 THEN "verified" ELSE "verify"

\* no API key: return matches
LlmVerifySkipped ==
    /\ pc = "pass"
    /\ strategy = "verify"
    /\ ~api_key
    /\ pc' = "verified"
    /\ UNCHANGED <<inputs, chunks, lecture_secs, verify_pos, locals, matches, window_start,
                   chunk_idx, entries_total, oracle_calls>>

LlmVerifyStart ==
    /\ pc = "pass"
    /\ strategy = "verify"
    /\ api_key
    /\ verify_pos' = 0
    /\ pc' = AfterVerify(0)
    /\ UNCHANGED <<inputs, chunks, lecture_secs, locals, matches, window_start, chunk_idx,
                   entries_total, oracle_calls>>

\* one iteration of "for match in batch" (batches only group the log lines)
VerifyOne(outcome) ==
    /\ LET i == NextToVerify(matches, verify_pos)
       IN  /\ matches' = [matches EXCEPT ![i] =
                              IF outcome.raised THEN VerifyFailed(@)
                              ELSE ApplyVerdict(@, outcome.result)]
           /\ verify_pos' = i
           /\ pc' = AfterVerify(i)
    /\ oracle_calls' = oracle_calls + 1
    /\ UNCHANGED <<inputs, chunks, lecture_secs, locals, window_start, chunk_idx, entries_total>>

VerifyParsed ==
    /\ pc = "verify"
    /\ \E quality \in VerdictQualities, conf \in VerdictConfidences :
           VerifyOne([raised |-> FALSE, result |-> ParsedVerdict(quality, conf)])

VerifyUnparsed ==
    /\ pc = "verify"
    /\ VerifyOne([raised |-> FALSE, result |-> UnparsedVerdict])

\* verify_single_match raises (the call fails, empty content, ...)
VerifyRaises ==
    /\ pc = "verify"
    /\ VerifyOne([raised |-> TRUE, result |-> UnparsedVerdict])

\* ------------------------------------------------ refine_uncertain_matches
\* a text is a sequence of words; word -k is word k written in capitals
Lower(w) == Abs(w)

\* set(text.lower().split())
Keywords(text) == {Lower(text[i]) : i \in 1..Len(text)}

\* " ".join([u["content"] for u in match.utterances])
RECURSIVE UtteranceText(_, _)
UtteranceText(positions, k) ==
    IF k > Len(positions) THEN <<>>
    ELSE utterances[positions[k]].content \o UtteranceText(positions, k + 1)

\* the loop body with the threshold test written "overlap >= 0.1"
RefineMatch_AtLeast(m) ==
    LET current_keywords == Keywords(m.slide_text)
        utterance_keywords == Keywords(UtteranceText(m.utterances, 1))
    IN  IF /\ current_keywords # {}
           /\ OVERLAP_INVERSE * Cardinality(current_keywords \cap utterance_keywords)
                  >= Cardinality(current_keywords)
        THEN [m EXCEPT !.confidence = "medium", !.notes = Append(@, "keyword")]
        ELSE m

\* body of "for match in uncertain"
RefineMatch(m) ==
    LET current_keywords == Keywords(m.slide_text)
        utterance_keywords == Keywords(UtteranceText(m.utterances, 1))
    IN  IF /\ current_keywords # {}
           /\ OVERLAP_INVERSE * Cardinality(current_keywords \cap utterance_keywords)
                  > Cardinality(current_keywords)
        THEN [m EXCEPT !.confidence = "medium", !.notes = Append(@, "keyword")]
        ELSE m

\* the refiner without the confidence == "low" filter
refine_uncertain_matches_NoFilter(ms) == [i \in 1..Len(ms) |-> RefineMatch(ms[i])]

\* uncertain = [m for m in matches if m.confidence == "low"]
refine_uncertain_matches(ms) ==
    [i \in 1..Len(ms) |-> IF ms[i].confidence = "low" THEN RefineMatch(ms[i]) ELSE ms[i]]

\* the refiner called on a list of SlideMatch, verified before or not
RefineUncertainMatches ==
    /\ (pc = "pass" /\ strategy = "refine") \/ pc = "verified"
    /\ matches' = refine_uncertain_matches(matches)
    /\ pc' = "refined"
    /\ UNCHANGED <<inputs, chunks, lecture_secs, verify_pos, locals, window_start, chunk_idx,
                   entries_total, oracle_calls>>

\* ---------------------------------------- the two passes on lists of SlideMatch
Confidences == {"unknown", "low", "medium", "high"}

\* utterance 1 says word 1 in capitals, utterance u > 1 says words 1..u
PassContent(u) == IF u = 1 THEN <<-1>> ELSE [k \in 1..u |-> k]

PassUtterances ==
    [u \in 1..MaxPassUtterances |->
        [seconds |-> 0, slide_num |-> NoHint, content |-> PassContent(u)]]

\* text preview of k distinct words, the first one written twice
PassText(k) == IF k = 0 THEN <<>> ELSE <<1>> \o [i \in 1..k |-> i]

PassTexts == {PassText(0), PassText(MaxWords - 1), PassText(MaxWords)}

\* utterances of slide i when utterance u sits on slide owner[u] (0: on none)
Owned(owner, i) ==
    SelectSeq([u \in 1..MaxPassUtterances |-> u], LAMBDA u : owner[u] = i)

\* strategy names the pass called first: "verify" (llm_verify_matches, slide
\* texts all alike since it only copies them into the prompt) or "refine"
PassInit ==
    /\ strategy \in {"verify", "refine"}
    /\ num_slides \in 1..MaxPassSlides
    /\ utterances = PassUtterances
    /\ total_duration_seconds = 0
    /\ api_key \in (IF strategy = "verify" THEN BOOLEAN ELSE {FALSE})
    /\ chunk_secs = chunk_seconds
    /\ oracle_tags = OracleConfidences
    /\ pc = "pass"
    /\ \E owner \in [1..MaxPassUtterances -> 0..num_slides],
          conf \in [1..num_slides -> Confidences],
          text \in [1..num_slides ->
                       (IF strategy = "refine" THEN PassTexts ELSE {PassText(MaxWords - 1)})] :
           matches = [i \in 1..num_slides |->
                         [slide_num |-> i, slide_text |-> text[i],
                          utterances |-> Owned(owner, i), confidence |-> conf[i],
                          llm_verified |-> FALSE, notes |-> <<>>]]
    /\ window_start = 0
    /\ chunk_idx = 0
    /\ chunk_utterances = <<>>
    /\ win_start = 0
    /\ win_end = 0
    /\ chunk_result = <<>>
    /\ chunk_source = "none"
    /\ result_len = 0
    /\ last_matched_idx = 0
    /\ entries_total = 0
    /\ oracle_calls = 0
    /\ chunks = <<>>
    /\ verify_pos = 0
    /\ lecture_secs = 0

PassNext ==
    \/ LlmVerifySkipped
    \/ LlmVerifyStart
    \/ VerifyParsed
    \/ VerifyUnparsed
    \/ VerifyRaises
    \/ RefineUncertainMatches

PassSpec == PassInit /\ [][PassNext]_vars

\* ------------------------------- windowed runs on decks longer than a window
\* windowed runs whose deck has more slides than the minimum window size, so
\* that min(num_slides, window_start + window_size) can cut the window
DeckInit ==
    /\ strategy = "windowed"
    /\ num_slides \in (MIN_WINDOW_SIZE + 1)..(MIN_WINDOW_SIZE + MaxDeckExtra)
    /\ utterances \in UtteranceLists(num_slides, FALSE)
    /\ total_duration_seconds \in DurationValues
    /\ api_key \in BOOLEAN
    /\ chunk_secs = chunk_seconds
    /\ oracle_tags = OracleConfidences
    /\ pc = "start"
    /\ Idle

DeckNext ==
    \/ EmptyInput
    \/ NoCredentialFallback
    \/ EnterChunkLoop
    \/ SkipEmptyChunk
    \/ OracleRaises
    \/ OracleUnparseable
    \/ OracleReturnsList
    \/ OracleItem
    \/ EndOfList

DeckSpec == DeckInit /\ [][DeckNext]_vars

\* --------------------------- split_utterances_into_chunks as a pure function
\* chunk widths: 1..MaxSplitWidth seconds and the width the matcher passes
SplitWidths == (1..MaxSplitWidth) \cup {chunk_seconds}

\* utterance lists sorted by seconds, seconds in 0..MaxSplitSecond
SplitUtteranceLists ==
    LET U == [seconds : 0..MaxSplitSecond, slide_num : {NoHint}, content : {<<>>}]
    IN  UNION {{s \in [1..k -> U] : \A i \in 1..(k - 1) : s[i].seconds <= s[i + 1].seconds}
               : k \in 0..MaxSplitLen}

SplitInit ==
    /\ strategy = "windowed"
    /\ num_slides = 0
    /\ utterances \in SplitUtteranceLists
    /\ total_duration_seconds = 0
    /\ api_key = FALSE
    /\ chunk_secs \in SplitWidths
    /\ oracle_tags = OracleConfidences
    /\ pc = "split_call"
    /\ Idle

SplitCall ==
    /\ pc = "split_call"
    /\ chunks' = split_utterances_into_chunks(utterances, chunk_secs)
    /\ pc' = "split_done"
    /\ UNCHANGED <<inputs, lecture_secs, verify_pos, locals, matches, window_start, chunk_idx,
                   entries_total, oracle_calls>>

SplitNext == SplitCall

SplitSpec == SplitInit /\ [][SplitNext]_vars

\* ----------------------------- the lecture time decision as a pure function
\* total_duration_seconds: absent (0, -1), one second, the two ends of the
\* band of 20% around the default and their neighbours, the default, and
\* multiples of 2500 s
DurationTotals ==
    {-1, 0, 1, default_seconds}
        \cup {default_seconds - default_seconds \div 5 + d : d \in {0, 1}}
        \cup {default_seconds + default_seconds \div 5 - d : d \in {0, 1}}
        \cup {t * 2500 : t \in 0..MaxDurationTick}

\* seconds of the transcript's last utterance
DurationLasts == {1} \cup {t * 2500 : t \in 0..MaxDurationTick}

DurationInit ==
    /\ strategy = "windowed"
    /\ num_slides = 1
    /\ \E s \in DurationLasts :
           utterances = <<[seconds |-> s, slide_num |-> NoHint, content |-> <<>>]>>
    /\ total_duration_seconds \in DurationTotals
    /\ api_key = FALSE
    /\ chunk_secs = chunk_seconds
    /\ oracle_tags = OracleConfidences
    /\ pc = "duration_call"
    /\ Idle

\* the statements from "default_seconds = ..." to "lecture_seconds = stt_last_second"
DurationCall ==
    /\ pc = "duration_call"
    /\ lecture_secs' = lecture_seconds(total_duration_seconds, LastSecond(utterances))
    /\ pc' = "duration_done"
    /\ UNCHANGED <<inputs, chunks, verify_pos, locals, matches, window_start, chunk_idx,
                   entries_total, oracle_calls>>

DurationNext == DurationCall

DurationSpec == DurationInit /\ [][DurationNext]_vars

\* ------------------- windowed runs whose oracle also attaches the tag "unknown"
\* item["confidence"] is copied as it is, so the oracle can also hand over the
\* string the SlideMatch starts with
TagConfidences == OracleConfidences \cup {"unknown"}

TagInit ==
    /\ strategy = "windowed"
    /\ num_slides \in 1..MaxTagSlides
    /\ utterances \in UtteranceLists(num_slides, FALSE)
    /\ total_duration_seconds = 0
    /\ api_key \in BOOLEAN
    /\ chunk_secs = chunk_seconds
    /\ oracle_tags = IF api_key THEN TagConfidences ELSE OracleConfidences
    /\ pc = "start"
    /\ Idle

TagNext ==
    \/ EmptyInput
    \/ NoCredentialFallback
    \/ EnterChunkLoop
    \/ SkipEmptyChunk
    \/ OracleRaises
    \/ OracleUnparseable
    \/ OracleReturnsList
    \/ OracleItem
    \/ EndOfList

TagSpec == TagInit /\ [][TagNext]_vars

\* ------------------------------------------------------------ properties
Range(s) == {s[i] : i \in 1..Len(s)}

\* number of times utterance u occurs over all SlideMatch.utterances lists
Occurrences(u) ==
    Cardinality(UNION {{<<i, k>> : k \in {j \in 1..Len(matches[i].utterances) :
                                            matches[i].utterances[j] = u}}
                       : i \in 1..Len(matches)})

InWindow(slide_idx) == win_start <= slide_idx /\ slide_idx < win_end

\* C1 (Coverage): when a matching strategy returns for a non-empty utterance list
\* and at least one slide, every utterance occurs exactly once over all
\* SlideMatch.utterances lists.
C1_Coverage ==
    (pc = "done" /\ utterances # <<>> /\ num_slides >= 1)
        => \A u \in 1..Len(utterances) : Occurrences(u) = 1

\* C2 (No double assignment): at no point of a run does an utterance occur more
\* than once over all SlideMatch.utterances lists, whatever the oracle returns.
C2_NoDoubleAssignment ==
    \A u \in 1..Len(utterances) : Occurrences(u) <= 1

\* C3 (Window containment): every mapping of an oracle response that changed a
\* SlideMatch names a slide index inside [win_start, win_end) of its chunk.
C3_WindowContainment ==
    chunk_source = "oracle"
        => \A k \in 1..Len(chunk_result) :
               SlideInRange(chunk_result[k].slide_idx, num_slides)
                   => InWindow(chunk_result[k].slide_idx)

\* C4 (Monotonic window advance): no step of a run lowers window_start.
C4_MonotonicWindowStart == [][window_start' >= window_start]_vars

\* C5 (Window-start bound): in every state of the chunk loop, the state after
\* its last iteration included, 0 <= window_start <= num_slides - 1.
C5_WindowStartBound ==
    (pc \in {"loop", "mapping"} \/ (pc = "done" /\ chunk_idx >= 1))
        => (0 <= window_start /\ window_start <= num_slides - 1)

\* a chunk was resolved by an oracle tuple naming the last slide, and the
\* clamp left window_start on the last slide
C5_Witness ==
    /\ pc \in {"loop", "done"}
    /\ chunk_source = "oracle"
    /\ Len(chunk_result) >= 1
    /\ chunk_result[Len(chunk_result)].slide_idx = num_slides - 1
    /\ last_matched_idx = num_slides - 1
    /\ window_start = num_slides - 1

\* C6 (Fallback totality): whole-transcript equal division (no-credential run,
\* legacy matcher) on a non-empty utterance list and at least one slide never
\* raises and places every utterance on exactly one slide.
C6_FallbackTotality ==
    (utterances # <<>> /\ num_slides >= 1 /\ (strategy = "legacy" \/ ~api_key))
        => /\ pc # "raised"
           /\ pc = "done" => \A u \in 1..Len(utterances) : Occurrences(u) = 1

RECURSIVE Flatten(_, _)
Flatten(result, k) ==
    IF k > Len(result) THEN <<>> ELSE result[k].utterances \o Flatten(result, k + 1)

C8_OutOfWindowFallsBack ==
    chunk_source = "oracle"
        => \A k \in 1..Len(chunk_result) :
               ~InWindow(chunk_result[k].slide_idx)
                   => \A u \in Range(chunk_result[k].utterances) :
                          /\ SlideInRange(chunk_result[k].slide_idx, num_slides)
                                 => u \notin Range(matches[chunk_result[k].slide_idx + 1].utterances)
                          /\ pc # "mapping"
                                 => \E i \in win_start..(win_end - 1) :
                                        u \in Range(matches[i + 1].utterances)

\* C9 (Chunk-local oracle failure): after a chunk whose oracle call raised, gave
\* no parseable array or gave no tuple, the chunk's utterances sit where
\* _fallback_chunk over the chunk's window puts them, and the oracle was called
\* at most once per chunk passed.
C9_ChunkLocalFallback ==
    (pc \in {"loop", "done"} /\ (chunk_source \in {"except", "unparseable"}
                              \/ (chunk_source = "oracle" /\ result_len = 0)))
        => /\ LET fb == _fallback_chunk(chunk_utterances, win_start, win_end)
              IN  \A k \in 1..Len(fb) :
                      \A u \in Range(fb[k].utterances) :
                          u \in Range(matches[fb[k].slide_idx + 1].utterances)
           /\ oracle_calls <= chunk_idx - 1

\* C10 (No-credential run): without a credential the windowed matcher never calls
\* the oracle, does not raise, and returns every utterance u on slide index
\* min(floor(u.seconds / (maxUtteranceSecond / numSlides)), numSlides - 1) only.
C10_NoCredentialEqualDivision ==
    (strategy = "windowed" /\ ~api_key /\ utterances # <<>> /\ num_slides >= 1)
        => /\ oracle_calls = 0
           /\ pc # "raised"
           /\ pc = "done"
                  => \A u \in 1..Len(utterances) :
                         LET q == (utterances[u].seconds * num_slides)
                                      \div LastSecond(utterances)
                             idx == IF q < num_slides - 1 THEN q ELSE num_slides - 1
                         IN  /\ u \in Range(matches[idx + 1].utterances)
                             /\ Occurrences(u) = 1

\* C11 (Hint wins in the legacy matcher): time_based_matching on a non-empty
\* utterance list and at least one slide places every utterance whose hint h
\* satisfies 1 <= h <= numSlides on slide h, and every other utterance on the
\* slide whole-transcript equal division gives it.
C11_HintWins ==
    (strategy = "legacy" /\ utterances # <<>> /\ num_slides >= 1)
        => /\ pc # "raised"
           /\ pc = "done"
                  => \A u \in 1..Len(utterances) :
                         LET h == utterances[u].slide_num
                             q == (utterances[u].seconds * num_slides)
                                      \div LastSecond(utterances)
                             slide == IF 1 <= h /\ h <= num_slides THEN h
                                      ELSE IF q < num_slides - 1 THEN q + 1 ELSE num_slides
                         IN  /\ u \in Range(matches[slide].utterances)
                             /\ Occurrences(u) = 1

\* C12 (Output shape): the list a strategy returns for a non-empty slide list
\* and a non-empty utterance list has one SlideMatch per slide, in slide order
\* (output[i].slide_num = slides[i].page_num), slides without utterances included.
C12_OutputShape ==
    (pc = "done" /\ utterances # <<>> /\ num_slides >= 1)
        => /\ Len(matches) = num_slides
           /\ \A i \in 1..num_slides : matches[i].slide_num = i

\* a windowed run resolved by the oracle returned with a slide that received
\* no utterance and a slide that received one
C12_Witness ==
    /\ pc = "done"
    /\ strategy = "windowed"
    /\ chunk_source = "oracle"
    /\ \E i, j \in 1..Len(matches) :
           matches[i].utterances = <<>> /\ matches[j].utterances # <<>>

\* C13 (Malformed input never raises): with an empty slide list and/or an empty
\* utterance list neither strategy raises.
C13_MalformedInputNeverRaises ==
    (utterances = <<>> \/ num_slides = 0) => pc # "raised"

\* position of a confidence tag in unknown < low < medium < high
Rank(c) == CASE c = "unknown" -> 0 [] c = "low" -> 1 [] c = "medium" -> 2 [] c = "high" -> 3

\* C14 (Refiner monotonicity): a call of refine_uncertain_matches leaves every
\* match's slide and utterances list as they were and either keeps its
\* confidence or raises it in unknown < low < medium < high.
C14_RefinerMonotonicity ==
    [][(pc' = "refined" /\ pc # "refined")
          => /\ Len(matches') = Len(matches)
             /\ \A i \in 1..Len(matches) :
                    /\ matches'[i].slide_num = matches[i].slide_num
                    /\ matches'[i].utterances = matches[i].utterances
                    /\ \/ matches'[i].confidence = matches[i].confidence
                       \/ /\ matches[i].confidence \in Confidences
                          /\ matches'[i].confidence \in Confidences
                          /\ Rank(matches'[i].confidence) > Rank(matches[i].confidence)]_vars

\* the refiner raised a low match that has utterances to medium and left
\* another match that has utterances alone
C14_Witness ==
    /\ pc = "refined"
    /\ \E i, j \in 1..Len(matches) :
           /\ matches[i].confidence = "medium"
           /\ matches[i].notes # <<>>
           /\ matches[i].notes[Len(matches[i].notes)] = "keyword"
           /\ matches[i].utterances # <<>>
           /\ matches[j].confidence = "high"
           /\ matches[j].utterances # <<>>

\* C15 (Confidence domain): every SlideMatch.confidence is one of unknown, low,
\* medium, high, whatever the oracle responds.
C15_ConfidenceDomain ==
    \A i \in 1..Len(matches) : matches[i].confidence \in Confidences

\* slide indices that received utterances from the mappings of a chunk
MatchedSlides(result) ==
    {result[k].slide_idx :
        k \in {j \in 1..Len(result) : SlideInRange(result[j].slide_idx, num_slides)}}

SetMax(S) == CHOOSE m \in S : \A x \in S : x <= m

\* a step that ends the iteration of a non-empty chunk
ChunkResolved == (pc = "mapping" \/ oracle_calls' > oracle_calls) /\ pc' # "mapping"

\* C16 (Window-advance rule): the step that ends a chunk's iteration sets
\* window_start to (largest slide index that received utterances from the
\* chunk) + 1, clamped to numSlides - 1, and keeps window_start when the chunk
\* matched no slide.
C16_WindowAdvanceRule ==
    [][ChunkResolved
          => LET matched == MatchedSlides(chunk_result')
             IN  window_start' = IF matched = {} THEN window_start
                                 ELSE Min(SetMax(matched) + 1, num_slides - 1)]_vars

\* C20 (Oracle index validation): an oracle tuple that is applied to a slide has
\* no utterance index outside 0..len(chunk)-1, i.e. its mapping holds as many
\* utterances as the tuple had indices (a tuple with a bad index is discarded
\* whole).
C20_TupleWithBadIndexDiscarded ==
    [][(pc = "mapping" /\ result_len' = result_len + 1
            /\ Len(chunk_result') > Len(chunk_result)
            /\ SlideInRange(chunk_result'[Len(chunk_result')].slide_idx, num_slides))
          => Len(chunk_result'[Len(chunk_result')].utterances)
                 = entries_total' - entries_total]_vars

\* 0-based number of the [k*chunkSeconds, (k+1)*chunkSeconds) interval holding u
ChunkOf(u) == utterances[u].seconds \div chunk_secs

RECURSIVE ChunkUtterances(_, _)
ChunkUtterances(cs, k) ==
    IF k > Len(cs) THEN <<>> ELSE cs[k].utterances \o ChunkUtterances(cs, k + 1)

\* C18 (Chunker placement): for utterances sorted by seconds and
\* chunkSeconds >= 1 the chunker returns; the k-th chunk (from 0) spans
\* [k*chunkSeconds, (k+1)*chunkSeconds); every utterance is in the chunk whose
\* span holds its seconds and in no other; the chunks' utterances, concatenated
\* in list order, are the input sequence.
C18_ChunkerPlacement ==
    /\ pc = "split_call" => ENABLED SplitCall
    /\ pc = "split_done"
           => /\ \A k \in 1..Len(chunks) :
                     /\ chunks[k].start_sec = (k - 1) * chunk_secs
                     /\ chunks[k].end_sec = k * chunk_secs
              /\ \A u \in 1..Len(utterances) :
                     /\ ChunkOf(u) + 1 <= Len(chunks)
                     /\ \A k \in 1..Len(chunks) :
                            u \in Range(chunks[k].utterances) <=> k = ChunkOf(u) + 1
              /\ ChunkUtterances(chunks, 1) = [u \in 1..Len(utterances) |-> u]

\* the chunker returned two chunks with utterances, one of them with an
\* utterance on its lower boundary
C18_Witness ==
    /\ pc = "split_done"
    /\ chunk_secs > 1
    /\ \E j, k \in 1..Len(chunks) :
           /\ j < k
           /\ chunks[j].utterances # <<>>
           /\ Len(chunks[k].utterances) >= 2
           /\ utterances[chunks[k].utterances[1]].seconds = chunks[k].start_sec

\* C19 (Chunker emptiness rules): the chunker returns no chunk for an empty
\* utterance list; for a non-empty list the last chunk has utterances; every
\* whole chunk interval lying between two consecutive utterances is in the
\* returned list, as an empty chunk.
C19_ChunkerEmptiness ==
    pc = "split_done"
        => /\ utterances = <<>> => chunks = <<>>
           /\ utterances # <<>>
                  => (chunks # <<>> /\ chunks[Len(chunks)].utterances # <<>>)
           /\ \A u \in 1..(Len(utterances) - 1) :
                  \A k \in (ChunkOf(u) + 1)..(ChunkOf(u + 1) - 1) :
                      /\ k + 1 <= Len(chunks)
                      /\ chunks[k + 1].utterances = <<>>
                      /\ chunks[k + 1].start_sec = k * chunk_secs

\* C19 as stated: as above, but with an empty chunk between the chunks of any
\* two consecutive utterances that are one chunk width or more apart in time.
C19_GapYieldsEmptyChunk ==
    pc = "split_done"
        => /\ utterances = <<>> => chunks = <<>>
           /\ utterances # <<>>
                  => (chunks # <<>> /\ chunks[Len(chunks)].utterances # <<>>)
           /\ \A u \in 1..(Len(utterances) - 1) :
                  utterances[u + 1].seconds - utterances[u].seconds >= chunk_secs
                      => \E k \in (ChunkOf(u) + 2)..ChunkOf(u + 1) :
                             k <= Len(chunks) /\ chunks[k].utterances = <<>>

\* two consecutive utterances lie two or more chunk intervals apart and the
\* chunk between them was returned empty
C19_Witness ==
    /\ pc = "split_done"
    /\ \E k \in 2..(Len(chunks) - 1) :
           /\ chunks[k].utterances = <<>>
           /\ chunks[k - 1].utterances # <<>>
           /\ chunks[k + 1].utterances # <<>>

\* C17 (Window bounds): the step that starts a chunk's iteration sets
\* win_start = max(0, window_start - OVERLAP_BACK) and
\* win_end = min(numSlides, window_start + windowSize), or numSlides for the
\* last chunk; when the run returns, the window of the chunk processed last
\* holds the last slide.
C17_WindowBounds ==
    /\ [][(pc = "loop" /\ oracle_calls' > oracle_calls)
             => /\ win_start' = (IF window_start - OVERLAP_BACK > 0
                                 THEN window_start - OVERLAP_BACK ELSE 0)
                /\ win_end' = (IF chunk_idx = Len(chunks) THEN num_slides
                               ELSE IF window_start + WindowSize < num_slides
                                    THEN window_start + WindowSize ELSE num_slides)]_vars
    /\ []((pc = "done" /\ oracle_calls > 0)
             => (win_start <= num_slides - 1 /\ num_slides - 1 < win_end))

\* a chunk that is not the last one was resolved in a window cut by the window
\* size before the last slide
C17_Witness ==
    /\ pc = "loop"
    /\ chunk_source # "none"
    /\ win_end < num_slides
    /\ window_start > OVERLAP_BACK

\* number of non-empty chunks among the first k chunks of the transcript
NonEmptyChunks(k) ==
    Cardinality({j \in 1..Min(k, Len(Chunks)) : Chunks[j].utterances # <<>>})

\* C21: in a windowed run with credentials the oracle is called exactly once
\* for each non-empty chunk, in chunk order: the number of calls made always
\* equals the number of non-empty chunks reached (a failed call is not
\* repeated), a call starts only from the loop head (never while a result is
\* still being applied), it is for the chunk the loop stands at, which has
\* utterances, and after the first call window_start is already the value
\* derived from the previous chunk's last matched slide
C21_OracleCallDiscipline ==
    /\ [][oracle_calls' # oracle_calls =>
              /\ pc = "loop"
              /\ oracle_calls' = oracle_calls + 1
              /\ chunk_idx \in 1..Len(Chunks)
              /\ Chunks[chunk_idx].utterances # <<>>
              /\ chunk_utterances' = Chunks[chunk_idx].utterances
              /\ oracle_calls > 0 =>
                     window_start = NextWindowStart(last_matched_idx, num_slides)]_vars
    /\ [][chunk_idx' >= chunk_idx]_vars
    /\ [](strategy = "windowed" /\ api_key /\ pc \in {"loop", "mapping", "done"} =>
              oracle_calls =
                  NonEmptyChunks(IF pc = "mapping" THEN chunk_idx ELSE chunk_idx - 1))

\* a finished run over three chunks, the middle one empty: two calls, the last
\* of which failed and was answered by the fallback allocator
C21_Witness ==
    /\ strategy = "windowed"
    /\ api_key
    /\ pc = "done"
    /\ Len(chunks) = 3
    /\ chunks[2].utterances = <<>>
    /\ oracle_calls = 2
    /\ chunk_source = "except"

\* C22: in llm_verify_matches every verification step is for a slide that has
\* utterances; a verdict of good or partial (the step that sets llm_verified)
\* leaves confidence high, and a verdict of poor (the parsed verdict that is
\* not verified: its reasoning is stored in notes and llm_verified stays
\* false) leaves confidence low, whatever confidence the oracle attached
C22_VerificationMapping ==
    [][(pc = "verify" /\ oracle_calls' = oracle_calls + 1) =>
           LET before == matches[verify_pos']
               after == matches'[verify_pos']
           IN  /\ before.utterances # <<>>
               /\ after.llm_verified => after.confidence = "high"
               /\ (~after.llm_verified /\ after.notes = <<"reasoning">>) =>
                      after.confidence = "low"]_vars

\* words of a slide's text preview, capitals folded
PreviewWords(m) == {Abs(m.slide_text[k]) : k \in 1..Len(m.slide_text)}

\* words of the utterances assigned to a slide, capitals folded
AssignedWords(m) ==
    UNION {{Abs(utterances[m.utterances[j]].content[k]) :
                k \in 1..Len(utterances[m.utterances[j]].content)} :
           j \in 1..Len(m.utterances)}

C24_DurationClamp ==
    (pc = "duration_done" \/ lecture_secs # 0) =>
        /\ lecture_secs > 0
        /\ lecture_secs >= LastSecond(utterances)

\* a supplied duration far from the default and shorter than the transcript:
\* the transcript's last second is used
C24_Witness ==
    /\ pc = "duration_done"
    /\ total_duration_seconds > 0
    /\ ~NearDefault(total_duration_seconds)
    /\ LastSecond(utterances) > total_duration_seconds
    /\ lecture_secs = LastSecond(utterances)

\* C25: when the supplied total duration is absent (<= 0), or differs from the
\* transcript's last utterance time by 20% or more (of either of the two),
\* the lecture duration used is the transcript's last utterance time (stated
\* for transcripts whose last utterance is after second 0)
C25_DurationSelection ==
    LET total == total_duration_seconds
        last == LastSecond(utterances)
    IN  (/\ pc = "duration_done"
         /\ last > 0
         /\ \/ total <= 0
            \/ /\ 5 * Abs(total - last) >= last
               /\ 5 * Abs(total - last) >= total)
            => lecture_secs = last

\* C26: every chunk the loop processes gets a window with
\* 0 <= win_start < win_end <= num_slides: the window the loop is about to
\* hand to the oracle for a chunk with utterances holds at least one slide,
\* and the window recorded for a resolved chunk, the one _fallback_chunk is
\* called with on a failure, has a size greater than zero
C26_NonEmptyWindow ==
    /\ (AtChunk /\ Chunks[chunk_idx].utterances # <<>>) =>
           /\ 0 <= CurWinStart
           /\ CurWinStart < CurWinEnd
           /\ CurWinEnd <= num_slides
           /\ WindowSlidesLen = CurWinEnd - CurWinStart
    /\ chunk_source # "none" =>
           /\ 0 <= win_start
           /\ win_start < win_end
           /\ win_end <= num_slides

\* a failed chunk answered by the fallback allocator on a window that starts
\* after the first slide
C26_Witness ==
    /\ chunk_source \in {"except", "unparseable"}
    /\ win_start > 0
    /\ win_end - win_start > 1
    /\ chunk_result # <<>>

\* C27: llm_verified is set only by an assignment that comes from an oracle
\* response: a chunk answered by the fallback allocator (the call failed, or
\* the response held no list) turns the flag of no slide to true, and a run
\* without credentials flags no slide at all
C27_VerifiedFlagProvenance ==
    /\ [][(oracle_calls' > oracle_calls /\ chunk_source' \in {"except", "unparseable"}) =>
              \A i \in 1..Len(matches) :
                  matches'[i].llm_verified = matches[i].llm_verified]_vars
    /\ []((strategy = "windowed" /\ ~api_key) =>
              \A i \in 1..Len(matches) : ~matches[i].llm_verified)

\* mappings handed to the apply loop by a step: the item just converted while
\* a response is being applied, the whole chunk_result of a fallback
NewMappings ==
    IF pc = "mapping" /\ pc' = "mapping"
    THEN SubSeq(chunk_result', Len(chunk_result) + 1, Len(chunk_result'))
    ELSE IF oracle_calls' > oracle_calls THEN chunk_result' ELSE <<>>

\* every step of a windowed run leaves each slide with the confidence of the
\* last of the step's mappings that names it, or with the confidence it had
\* when none does
LastWriterWins ==
    (strategy = "windowed" /\ Len(matches) = Len(matches')) =>
        \A i \in 1..Len(matches) :
            LET ks == {k \in 1..Len(NewMappings) : NewMappings[k].slide_idx + 1 = i}
            IN  matches'[i].confidence =
                    IF ks = {} THEN matches[i].confidence
                    ELSE NewMappings[SetMax(ks)].confidence

\* C28 (as stated): in a windowed run a slide's confidence is the confidence
\* of the last mapping applied to it, and it is unknown exactly when no
\* mapping was ever applied to it (with credentials: exactly when the slide
\* has no utterance, each mapping carrying at least one; without: always)
C28_UnknownIffNeverMapped ==
    /\ [][LastWriterWins]_vars
    /\ [](strategy = "windowed" =>
              \A i \in 1..Len(matches) :
                  (matches[i].confidence = "unknown") <=>
                      (~api_key \/ matches[i].utterances = <<>>))

\* C28 (amended): in a windowed run a slide's confidence is the confidence of
\* the last mapping applied to it, and it is unknown when no mapping was ever
\* applied to it (with credentials: when the slide has no utterance; without
\* credentials: always)
C28_ConfidenceLastWriterWins ==
    /\ [][LastWriterWins]_vars
    /\ [](strategy = "windowed" =>
              \A i \in 1..Len(matches) :
                  (~api_key \/ matches[i].utterances = <<>>) =>
                      matches[i].confidence = "unknown")

\* a finished run of two calls: the first was answered by the oracle, the
\* second by the fallback allocator, whose low replaced the confidence of a
\* slide holding an utterance of each chunk; another slide was never named
C28_Witness ==
    /\ strategy = "windowed"
    /\ api_key
    /\ pc = "done"
    /\ oracle_calls = 2
    /\ entries_total > 0
    /\ chunk_source = "except"
    /\ \E i, j \in 1..Len(matches) :
           /\ Len(matches[i].utterances) = 2
           /\ matches[i].confidence = "low"
           /\ matches[j].confidence = "unknown"

\* C29: a step of llm_verify_matches keeps the list's length and every
\* slide's number, text and utterances; it changes nothing of a slide without
\* utterances and at most one slide at a time; without a credential it changes
\* nothing and calls nothing; a failed verification (the slide's confidence
\* becomes unknown while its notes stay) changes only that confidence, and the
\* pass goes on: when it returns, one call was made for each slide that has
\* utterances
C29_VerificationFrame ==
    /\ [][(strategy = "verify" /\ pc \in {"pass", "verify"}) =>
              /\ Len(matches') = Len(matches)
              /\ \A i \in 1..Len(matches) :
                     /\ matches'[i].slide_num = matches[i].slide_num
                     /\ matches'[i].slide_text = matches[i].slide_text
                     /\ matches'[i].utterances = matches[i].utterances
                     /\ matches[i].utterances = <<>> => matches'[i] = matches[i]
                     /\ matches'[i] # matches[i] => i = verify_pos'
              /\ ~api_key => (matches' = matches /\ oracle_calls' = oracle_calls)
              /\ (/\ oracle_calls' > oracle_calls
                  /\ matches'[verify_pos'].confidence = "unknown"
                  /\ matches'[verify_pos'].notes = matches[verify_pos'].notes) =>
                     matches'[verify_pos'] =
                         [matches[verify_pos'] EXCEPT !.confidence = "unknown"]]_vars
    /\ []((strategy = "verify" /\ pc = "verified" /\ api_key) =>
              oracle_calls =
                  Cardinality({i \in 1..Len(matches) : matches[i].utterances # <<>>}))

\* the pass has returned: the first slide's verification failed (confidence
\* unknown, nothing else touched), the second slide was verified after it
C29_Witness ==
    /\ strategy = "verify"
    /\ pc = "verified"
    /\ oracle_calls = 2
    /\ Len(matches) = 2
    /\ matches[1].confidence = "unknown"
    /\ matches[1].notes = <<>>
    /\ ~matches[1].llm_verified
    /\ matches[2].llm_verified

\* C30: the loop passes a chunk without utterances by moving to the next
\* chunk only: no oracle call, window_start, every SlideMatch and the record
\* of the last resolved chunk unchanged, so the window computed for the next
\* chunk (its start, and its end before the last-chunk rule) is the one that
\* would have been computed in place of the empty chunk
C30_EmptyChunkNoOp ==
    [][(AtChunk /\ Chunks[chunk_idx].utterances = <<>>) =>
           /\ chunk_idx' = chunk_idx + 1
           /\ pc' = pc
           /\ oracle_calls' = oracle_calls
           /\ window_start' = window_start
           /\ matches' = matches
           /\ locals' = locals
           /\ CurWinStart' = CurWinStart
           /\ WinEnd(window_start', WindowSize, num_slides, FALSE) =
                  WinEnd(window_start, WindowSize, num_slides, FALSE)]_vars

\* a finished run over three chunks, the middle one empty, in which the first
\* chunk moved the window start and the third chunk's window began from it
C30_Witness ==
    /\ strategy = "windowed"
    /\ api_key
    /\ pc = "done"
    /\ Len(chunks) = 3
    /\ chunks[2].utterances = <<>>
    /\ oracle_calls = 2
    /\ win_start > 0

====
